---- MODULE Spec2Model ----
(***************************************************************************)
(* Model of python_action/clang_tidy.py: the parser of clang-tidy's        *)
(* stdout (parse_tidy_output), the record built from a notification's      *)
(* first line (TidyNotification.__init__) and its rendering as a github    *)
(* log command (TidyNotification.log_command).                             *)
(*                                                                         *)
(* A str is a sequence of one-character strings; a line of the report is   *)
(* such a sequence, with its "\n" kept as readlines() keeps it.            *)
(***************************************************************************)
EXTENDS Integers, Sequences, FiniteSets, TLC

VARIABLES
    platform,       \* sys.platform
    tidy_notes,     \* GlobalParser.tidy_notes: the list of TidyNotification objects
    report,         \* tidy_out.readlines(): the lines of clang_tidy_report.txt
    idx,            \* position of the for loop in report (1-based, next line to process)
    notification,   \* the local `notification`: index in tidy_notes of the object, 0 for None
    pc,             \* "idle" (no call active), "parsing" (inside the loop), "raised" (exception left the call)
    raised,         \* the exception that left parse_tidy_output, "none" if none
    log_out,        \* the str returned by the last log_command() call, <<>> when there was none
    log_of,         \* index in tidy_notes of the object log_command() was called on, 0 if none
    notes_at_start, \* history: GlobalParser.tidy_notes as it was when the current call began
    passes,         \* number of calls of parse_tidy_output so far
    total           \* number of report lines read by all calls so far

vars == <<platform, tidy_notes, report, idx, notification, pc, raised,
          log_out, log_of, notes_at_start, passes, total>>

(***************************************************************************)
(* Bounds of the model.                                                    *)
(***************************************************************************)
MaxLines == 3
MaxPasses == 2

(***************************************************************************)
(* Characters and the classes the regular expressions and str methods use. *)
(***************************************************************************)
DigitChars == <<"0", "1", "2", "3", "4", "5", "6", "7", "8", "9">>

Digit == {DigitChars[i] : i \in 1..10}

Letter == {"a", "b", "c", "d", "e", "f", "g", "h", "i", "j", "k", "l", "m",
           "n", "o", "p", "q", "r", "s", "t", "u", "v", "w", "x", "y", "z",
           "A", "B", "C", "D", "E", "F", "G", "H", "I", "J", "K", "L", "M",
           "N", "O", "P", "Q", "R", "S", "T", "U", "V", "W", "X", "Y", "Z"}

\* \w of the re module
WordChar == Letter \cup Digit \cup {"_"}

\* \s of the re module, and the characters str.strip() and int() drop
Space == {" ", "\t", "\n", "\r"}

(***************************************************************************)
(* str methods.                                                            *)
(***************************************************************************)
Positions(s, c) == {i \in 1..Len(s) : s[i] = c}

Min(S) == CHOOSE x \in S : \A y \in S : x <= y

Max(S) == CHOOSE x \in S : \A y \in S : x >= y

\* s[i:j] with 1-based inclusive bounds
Slice(s, i, j) == IF i > j THEN <<>> ELSE SubSeq(s, i, j)

RECURSIVE SplitColon(_)
\* str.split(":")
SplitColon(s) ==
    IF Positions(s, ":") = {}
    THEN <<s>>
    ELSE LET i == Min(Positions(s, ":"))
         IN  <<Slice(s, 1, i - 1)>> \o SplitColon(Slice(s, i + 1, Len(s)))

\* str.strip()
Strip(s) ==
    LET keep == {i \in 1..Len(s) : s[i] \notin Space}
    IN  IF keep = {} THEN <<>> ELSE Slice(s, Min(keep), Max(keep))

RECURSIVE Remove(_, _)
\* str.replace(old, ""), old not empty: every non-overlapping occurrence, left to right
Remove(s, old) ==
    IF Len(s) < Len(old)
    THEN s
    ELSE IF SubSeq(s, 1, Len(old)) = old
         THEN Remove(Slice(s, Len(old) + 1, Len(s)), old)
         ELSE <<s[1]>> \o Remove(Tail(s), old)

\* str.startswith(prefix)
StartsWith(s, prefix) ==
    Len(s) >= Len(prefix) /\ SubSeq(s, 1, Len(prefix)) = prefix

(***************************************************************************)
(* int(str) and the "{}" formatting of an int.                             *)
(***************************************************************************)
DigitVal(c) == (CHOOSE n \in 1..10 : DigitChars[n] = c) - 1

RECURSIVE DigitsVal(_)
DigitsVal(s) ==
    IF s = <<>>
    THEN 0
    ELSE IF s[Len(s)] = "_"
         THEN DigitsVal(Slice(s, 1, Len(s) - 1))
         ELSE DigitsVal(Slice(s, 1, Len(s) - 1)) * 10 + DigitVal(s[Len(s)])

\* the part of an int literal after its sign: digits, single "_" between digits
IsDigits(u) ==
    /\ u # <<>>
    /\ \A i \in 1..Len(u) : u[i] \in Digit \cup {"_"}
    /\ u[1] \in Digit
    /\ u[Len(u)] \in Digit
    /\ \A i \in 1..(Len(u) - 1) : ~(u[i] = "_" /\ u[i + 1] = "_")

Unsigned(t) == IF t # <<>> /\ t[1] \in {"+", "-"} THEN Tail(t) ELSE t

\* int(s) raises ValueError unless IntOk(s)
IntOk(s) == IsDigits(Unsigned(Strip(s)))

\* the number taken as counted from 1 and turned into one counted from 0
IntValZeroBased(s) ==
    LET t == Strip(s)
    IN  (IF t[1] = "-" THEN 0 - DigitsVal(Unsigned(t)) ELSE DigitsVal(Unsigned(t))) - 1

\* int(s) when it does not raise
IntVal(s) ==
    LET t == Strip(s)
    IN  IF t[1] = "-" THEN 0 - DigitsVal(Unsigned(t)) ELSE DigitsVal(Unsigned(t))

RECURSIVE Dec(_)
Dec(n) ==
    IF n < 10
    THEN <<DigitChars[n + 1]>>
    ELSE Dec(n \div 10) \o <<DigitChars[(n % 10) + 1]>>

\* "{}".format(n) for an int n
FormatInt(n) == IF n < 0 THEN <<"-">> \o Dec(0 - n) ELSE Dec(n)

(***************************************************************************)
(* The environment read by the module: sys.platform, os.getcwd(), os.sep.  *)
(***************************************************************************)
Platforms == {"linux", "win32"}

\* sys.platform.startswith("win32")
IsWin32(p) == p = "win32"

\* os.sep
Sep(p) == IF IsWin32(p) THEN <<"\\">> ELSE <<"/">>

\* os.getcwd(): the directory the action runs in
Getcwd(p) == IF IsWin32(p) THEN <<"C", ":", "\\", "w">> ELSE <<"/", "w">>

(***************************************************************************)
(* re.search("^.*:\d+:\d+:\s\w+:.*\[.*\]$", line) is not None              *)
(* "." matches anything but "\n"; "$" matches at the end of the str and    *)
(* before a "\n" that ends it.                                             *)
(***************************************************************************)
AllIn(s, i, j, S) == i <= j /\ \A k \in i..j : s[k] \in S

NoNewline(s, i, j) == \A k \in i..j : s[k] # "\n"

LineEnds(line) ==
    {Len(line)} \cup
    (IF line # <<>> /\ line[Len(line)] = "\n" THEN {Len(line) - 1} ELSE {})

HeaderPattern(line) ==
    LET colons == Positions(line, ":")
    IN  \E c1 \in colons :
          /\ NoNewline(line, 1, c1 - 1)
          /\ \E c2 \in colons :
                /\ AllIn(line, c1 + 1, c2 - 1, Digit)
                /\ \E c3 \in colons :
                      /\ AllIn(line, c2 + 1, c3 - 1, Digit)
                      /\ \E c4 \in colons :
                            /\ c3 + 1 < c4
                            /\ line[c3 + 1] \in Space
                            /\ AllIn(line, c3 + 2, c4 - 1, WordChar)
                            /\ \E e \in LineEnds(line) :
                                  /\ e > c4 + 1
                                  /\ line[e] = "]"
                                  /\ NoNewline(line, c4 + 1, e)
                                  /\ \E b \in (c4 + 1)..(e - 1) : line[b] = "["

(***************************************************************************)
(* TidyNotification.__init__                                               *)
(***************************************************************************)
\* the merge of sliced_line items 0 and 1
MergePath(sliced) ==
    <<sliced[1] \o <<":">> \o sliced[2]>> \o Slice(sliced, 3, Len(sliced))

\* the path is re-assembled on every platform
NeedsMergeAnyPlatform(p, sliced) == Len(sliced) > 5

\* when the two items of the path are re-assembled
NeedsMerge(p, sliced) == IsWin32(p) /\ Len(sliced) > 5

\* sliced_line as it reaches the tuple assignment
SlicedLine(line, p) ==
    LET sliced == SplitColon(line)
    IN  IF NeedsMerge(p, sliced) THEN MergePath(sliced) ELSE sliced

\* re.search("\[.*\]", note_info): <<start, end>> of the match, <<0, 0>> for None
BracketMatch(info) ==
    LET opens == {b \in Positions(info, "[") :
                     \E e \in Positions(info, "]") : e > b /\ NoNewline(info, b, e)}
    IN  IF opens = {}
        THEN <<0, 0>>
        ELSE LET b == Min(opens)
             IN  <<b, Max({e \in Positions(info, "]") : e > b /\ NoNewline(info, b, e)})>>

\* .group(0) of the match
MatchedText(info) == Slice(info, BracketMatch(info)[1], BracketMatch(info)[2])

\* the brackets are left on the check
UnbracketKept(d) == d

\* self.diagnostic[1:-1]
Unbracket(d) == Slice(d, 2, Len(d) - 1)

\* the exception __init__ raises on this line, "none" when it returns
InitError(line, p) ==
    LET sliced == SlicedLine(line, p)
    IN  IF Len(sliced) # 5 THEN "ValueError"
        ELSE IF BracketMatch(sliced[5]) = <<0, 0>> THEN "AttributeError"
        ELSE IF ~IntOk(sliced[2]) \/ ~IntOk(sliced[3]) THEN "ValueError"
        ELSE "none"

\* the object __init__ leaves, for a line on which it does not raise
TidyNotification(line, p) ==
    LET sliced == SlicedLine(line, p)
        found  == MatchedText(sliced[5])
    IN  [filename    |-> Remove(sliced[1], Getcwd(p) \o Sep(p)),
         line        |-> IntVal(sliced[2]),
         cols        |-> IntVal(sliced[3]),
         note_type   |-> Strip(sliced[4]),
         note_info   |-> Strip(Remove(sliced[5], found)),
         diagnostic  |-> Unbracket(found),
         fixit_lines |-> <<>>]

(***************************************************************************)
(* TidyNotification.log_command                                            *)
(***************************************************************************)
Note == <<"n", "o", "t", "e">>

Notice == <<"n", "o", "t", "i", "c", "e">>

\* the severity is the level whatever it is
LogLevelVerbatim(n) == n.note_type

\* the first argument of the format call
LogLevel(n) == IF StartsWith(n.note_type, Note) THEN Notice ELSE n.note_type

\* "::{} file={},line={},title={}:{}:{} [{}]::{}".format(...)
log_command(n) ==
    <<":", ":">> \o LogLevel(n)
    \o <<" ", "f", "i", "l", "e", "=">> \o n.filename
    \o <<",", "l", "i", "n", "e", "=">> \o FormatInt(n.line)
    \o <<",", "t", "i", "t", "l", "e", "=">> \o n.filename
    \o <<":">> \o FormatInt(n.line)
    \o <<":">> \o FormatInt(n.cols)
    \o <<" ", "[">> \o n.diagnostic
    \o <<"]", ":", ":">> \o n.note_info

(***************************************************************************)
(* The lines clang_tidy_report.txt is made of.                             *)
(***************************************************************************)
\* a notification of severity note: a.cpp:3:1: note: m [c]\n
NoteLine ==
    <<"a", ".", "c", "p", "p", ":", "3", ":", "1", ":", " ", "n", "o", "t",
      "e", ":", " ", "m", " ", "[", "c", "]", "\n">>

\* a notification whose path has a drive letter: C:\src\file.cpp:12:5: warning: unused variable [check-x]\n
WinLine ==
    <<"C", ":", "\\", "s", "r", "c", "\\", "f", "i", "l", "e", ".", "c", "p",
      "p", ":", "1", "2", ":", "5", ":", " ", "w", "a", "r", "n", "i", "n",
      "g", ":", " ", "u", "n", "u", "s", "e", "d", " ", "v", "a", "r", "i",
      "a", "b", "l", "e", " ", "[", "c", "h", "e", "c", "k", "-", "x", "]",
      "\n">>

\* a notification with a path without a drive letter: /src/file.cpp:12:5: error: bad thing [check-y]\n
PosixLine ==
    <<"/", "s", "r", "c", "/", "f", "i", "l", "e", ".", "c", "p", "p", ":",
      "1", "2", ":", "5", ":", " ", "e", "r", "r", "o", "r", ":", " ", "b",
      "a", "d", " ", "t", "h", "i", "n", "g", " ", "[", "c", "h", "e", "c",
      "k", "-", "y", "]", "\n">>

\* a path under the posix working directory, brackets in the rationale: /w/a.c:3:1: warning: use [[x]] [c]\n
BracketsLine ==
    <<"/", "w", "/", "a", ".", "c", ":", "3", ":", "1", ":", " ", "w", "a",
      "r", "n", "i", "n", "g", ":", " ", "u", "s", "e", " ", "[", "[", "x",
      "]", "]", " ", "[", "c", "]", "\n">>

\* line and column 0: a.c:0:0: warning: m [c]\n
ZeroLine ==
    <<"a", ".", "c", ":", "0", ":", "0", ":", " ", "w", "a", "r", "n", "i",
      "n", "g", ":", " ", "m", " ", "[", "c", "]", "\n">>

\* nothing between the brackets: a.c:3:1: warning: m []\n
EmptyIdLine ==
    <<"a", ".", "c", ":", "3", ":", "1", ":", " ", "w", "a", "r", "n", "i",
      "n", "g", ":", " ", "m", " ", "[", "]", "\n">>

\* six items, the colon between the brackets: a:1:2: w:[x:c]\n
ColonIdLine ==
    <<"a", ":", "1", ":", "2", ":", " ", "w", ":", "[", "x", ":", "c", "]",
      "\n">>

\* six items, the colon in the rationale: a:1:2: w:x:[c]\n
ExtraColonLine ==
    <<"a", ":", "1", ":", "2", ":", " ", "w", ":", "x", ":", "[", "c", "]",
      "\n">>

\* a line of the code block:   int x;\n
CodeLine ==
    <<" ", " ", "i", "n", "t", " ", "x", ";", "\n">>

\* the caret line of the code block, ending the file without a newline:   ^
CaretLine ==
    <<" ", " ", "^">>

LinePool ==
    {NoteLine, WinLine, PosixLine, BracketsLine, ZeroLine, EmptyIdLine,
     ColonIdLine, ExtraColonLine, CodeLine, CaretLine}

\* the lines of the pool the header pattern matches: the search is done
\* once for each line of the pool
HeaderLines == {line \in LinePool : HeaderPattern(line)}

\* the condition of the if, for a line of the pool
IsHeader(line) == line \in HeaderLines

EndsWithNewline(line) == line # <<>> /\ line[Len(line)] = "\n"

\* the values readlines() can return with exactly k lines: only the last
\* line of a file can lack its "\n"
ReportsOfLen(k) ==
    {rep \in [1..k -> LinePool] :
        \A i \in 1..(k - 1) : EndsWithNewline(rep[i])}

ReportsByLen == [k \in 0..MaxLines |-> ReportsOfLen(k)]

\* the values readlines() can return with at most n lines
Reports(n) == UNION {ReportsByLen[k] : k \in 0..n}

(***************************************************************************)
(* GlobalParser.tidy_notes when the package is imported: an empty list     *)
(* (python_action/__init__.py).                                            *)
(***************************************************************************)
EmptyNotes == <<>>

Init ==
    /\ platform \in Platforms
    /\ tidy_notes = EmptyNotes
    /\ report = <<>>
    /\ idx = 1
    /\ notification = 0
    /\ pc = "idle"
    /\ raised = "none"
    /\ log_out = <<>>
    /\ log_of = 0
    /\ notes_at_start = EmptyNotes
    /\ passes = 0
    /\ total = 0

(***************************************************************************)
(* parse_tidy_output                                                       *)
(***************************************************************************)
\* a notification equal to one already held is not appended again
AppendNoteUnique(notes, n) ==
    IF \E k \in 1..Len(notes) : notes[k] = n THEN notes ELSE Append(notes, n)

\* GlobalParser.tidy_notes.append(notification)
AppendNote(notes, n) == Append(notes, n)

\* the line put in front of the code block instead of behind it
AppendFixitFront(notes, k, line) ==
    [notes EXCEPT ![k].fixit_lines = <<line>> \o @]

\* notification.fixit_lines.append(line), notification being notes[k]
AppendFixit(notes, k, line) ==
    [notes EXCEPT ![k].fixit_lines = Append(@, line)]

\* the call empties the collection before it reads the file
StartPassCleared ==
    /\ pc = "idle"
    /\ passes < MaxPasses
    /\ \E rep \in Reports(MaxLines - total) :
           /\ report' = rep
           /\ total' = total + Len(rep)
    /\ passes' = passes + 1
    /\ notification' = 0
    /\ idx' = 1
    /\ pc' = "parsing"
    /\ notes_at_start' = tidy_notes
    /\ tidy_notes' = <<>>
    /\ log_out' = <<>>
    /\ log_of' = 0
    /\ UNCHANGED <<platform, raised>>

\* the call: notification = None, the file is opened and read whole
StartPass ==
    /\ pc = "idle"
    /\ passes < MaxPasses
    /\ \E rep \in Reports(MaxLines - total) :
           /\ report' = rep
           /\ total' = total + Len(rep)
    /\ passes' = passes + 1
    /\ notification' = 0
    /\ idx' = 1
    /\ pc' = "parsing"
    /\ notes_at_start' = tidy_notes
    /\ log_out' = <<>>
    /\ log_of' = 0
    /\ UNCHANGED <<platform, tidy_notes, raised>>

\* the line matches and TidyNotification(line) returns
ParseHeader ==
    /\ pc = "parsing"
    /\ idx <= Len(report)
    /\ IsHeader(report[idx])
    /\ InitError(report[idx], platform) = "none"
    /\ tidy_notes' = AppendNote(tidy_notes, TidyNotification(report[idx], platform))
    /\ notification' = Len(tidy_notes')
    /\ idx' = idx + 1
    /\ UNCHANGED <<platform, report, pc, raised, log_out, log_of,
                   notes_at_start, passes, total>>

\* the exception is swallowed and the loop goes on with the next line
RaiseMalformedSwallowed ==
    /\ pc = "parsing"
    /\ idx <= Len(report)
    /\ IsHeader(report[idx])
    /\ InitError(report[idx], platform) # "none"
    /\ idx' = idx + 1
    /\ UNCHANGED <<platform, tidy_notes, report, notification, pc, raised,
                   log_out, log_of, notes_at_start, passes, total>>

\* the line matches and TidyNotification(line) raises: the exception leaves
\* the loop and the call
RaiseMalformed ==
    /\ pc = "parsing"
    /\ idx <= Len(report)
    /\ IsHeader(report[idx])
    /\ InitError(report[idx], platform) # "none"
    /\ raised' = InitError(report[idx], platform)
    /\ pc' = "raised"
    /\ UNCHANGED <<platform, tidy_notes, report, idx, notification, log_out,
                   log_of, notes_at_start, passes, total>>

\* the line does not match and notification is not None
AppendFixitLine ==
    /\ pc = "parsing"
    /\ idx <= Len(report)
    /\ ~IsHeader(report[idx])
    /\ notification # 0
    /\ tidy_notes' = AppendFixit(tidy_notes, notification, report[idx])
    /\ idx' = idx + 1
    /\ UNCHANGED <<platform, report, notification, pc, raised, log_out,
                   log_of, notes_at_start, passes, total>>

\* with no current notification the line goes to the last one of the
\* collection, if there is one
DiscardLineToLast ==
    /\ pc = "parsing"
    /\ idx <= Len(report)
    /\ ~IsHeader(report[idx])
    /\ notification = 0
    /\ tidy_notes' = IF tidy_notes = <<>>
                     THEN tidy_notes
                     ELSE AppendFixit(tidy_notes, Len(tidy_notes), report[idx])
    /\ idx' = idx + 1
    /\ UNCHANGED <<platform, report, notification, pc, raised, log_out,
                   log_of, notes_at_start, passes, total>>

\* the line does not match and notification is None
DiscardLine ==
    /\ pc = "parsing"
    /\ idx <= Len(report)
    /\ ~IsHeader(report[idx])
    /\ notification = 0
    /\ idx' = idx + 1
    /\ UNCHANGED <<platform, tidy_notes, report, notification, pc, raised,
                   log_out, log_of, notes_at_start, passes, total>>

\* the loop is over: the call returns
EndPass ==
    /\ pc = "parsing"
    /\ idx > Len(report)
    /\ pc' = "idle"
    /\ UNCHANGED <<platform, tidy_notes, report, idx, notification, raised,
                   log_out, log_of, notes_at_start, passes, total>>

\* a caller renders one of the notifications
LogCommand ==
    /\ pc = "idle"
    /\ \E k \in 1..Len(tidy_notes) :
           /\ log_out' = log_command(tidy_notes[k])
           /\ log_of' = k
    /\ UNCHANGED <<platform, tidy_notes, report, idx, notification, pc,
                   raised, notes_at_start, passes, total>>

Next ==
    \/ StartPass
    \/ ParseHeader
    \/ RaiseMalformed
    \/ AppendFixitLine
    \/ DiscardLine
    \/ EndPass
    \/ LogCommand

Spec == Init /\ [][Next]_vars

(***************************************************************************)
(* What the properties below speak about: the lines the loop has gone      *)
(* through in the current call, and the objects that call has appended.    *)
(***************************************************************************)
\* positions of the processed lines that match the header pattern
HeaderIdx == {i \in 1..(idx - 1) : IsHeader(report[i])}

\* number of objects in the collection when the current call began
Base == Len(notes_at_start)

\* the collection holds one more object per processed header line
Aligned == Len(tidy_notes) = Base + Cardinality(HeaderIdx)

\* the object appended for the header line at position i (when Aligned)
RecordOf(i) == tidy_notes[Base + Cardinality({j \in HeaderIdx : j <= i})]

\* the position where the code block of the header line at i stops
BlockEnd(i) == Min({j \in HeaderIdx : j > i} \cup {idx})

\* the objects of earlier calls are as they were when this call began
EarlierKept ==
    /\ Len(tidy_notes) >= Base
    /\ SubSeq(tidy_notes, 1, Base) = notes_at_start

\* a notification without its code block
Fields(n) == [n EXCEPT !.fixit_lines = <<>>]

\* per platform, the header lines of the pool that give a record, with the
\* record each gives
Built ==
    [p \in Platforms |->
        [line \in {h \in HeaderLines : InitError(h, p) = "none"} |->
            TidyNotification(line, p)]]

\* the header line at position i gives a record, and the object appended
\* for it has that record's fields
BuiltFromLine(i) ==
    /\ report[i] \in DOMAIN Built[platform]
    /\ Fields(RecordOf(i)) = Built[platform][report[i]]

\* C1: in a pass that has raised nothing, the code block (fixit_lines) of
\* the object built from a header line is exactly the non-header lines
\* between that header line and the next one (or the end of what was read),
\* verbatim and in their order, and no other object gets them.
ExcerptsFollowHeader ==
    raised = "none" =>
        /\ Aligned
        /\ EarlierKept
        /\ \A i \in HeaderIdx :
               RecordOf(i).fixit_lines = Slice(report, i + 1, BlockEnd(i) - 1)

ExcerptsFollowHeaderWitness ==
    /\ pc = "idle"
    /\ raised = "none"
    /\ Len(report) = 3
    /\ HeaderIdx = {1}
    /\ report[2] # report[3]
    /\ tidy_notes[Base + 1].fixit_lines = <<report[2], report[3]>>

\* C2: in a pass that has raised nothing, the collection has gained one
\* object per processed header line, the i-th gained built from the i-th
\* header line, identical header lines included.
OneRecordPerHeader ==
    raised = "none" =>
        /\ Aligned
        /\ EarlierKept
        /\ \A i \in HeaderIdx : BuiltFromLine(i)

OneRecordPerHeaderWitness ==
    /\ pc = "idle"
    /\ raised = "none"
    /\ Len(report) = 3
    /\ HeaderIdx = {1, 2, 3}
    /\ report[1] = report[2]
    /\ report[3] # report[1]
    /\ Len(tidy_notes) = Base + 3
    /\ Fields(tidy_notes[Base + 1]) = Fields(tidy_notes[Base + 2])
    /\ Fields(tidy_notes[Base + 3]) # Fields(tidy_notes[Base + 1])

\* C3: as long as no header line has been seen in the pass, the lines read
\* are dropped: the collection is as it was when the call began and there
\* is no current notification.
LeadingLinesDiscarded ==
    HeaderIdx = {} => (tidy_notes = notes_at_start /\ notification = 0)

LeadingLinesDiscardedWitness ==
    /\ pc = "idle"
    /\ Len(report) = 2
    /\ HeaderIdx = {}
    /\ notes_at_start # <<>>
    /\ tidy_notes = notes_at_start

\* the three ways a header line fails to give a record: the number of items
\* after the merge of the path is not 5, no bracketed check in the fifth
\* item, line or column not an integer
Malformed(line, p) ==
    LET items == SlicedLine(line, p)
    IN  \/ Len(items) # 5
        \/ ~\E b \in Positions(items[5], "[") :
                \E e \in Positions(items[5], "]") : b < e
        \/ ~IntOk(items[2])
        \/ ~IntOk(items[3])

\* per platform, the header lines of the pool that fail in one of these ways
MalformedLines == [p \in Platforms |-> {h \in HeaderLines : Malformed(h, p)}]

\* C4: a header line from which no record can be built makes the call
\* raise: the loop stops at that line, nothing is appended for it, no later
\* line is processed, and the collection holds what the lines before it
\* gave, code blocks included. Every header line the loop went past gave a
\* record.
MalformedHeaderRaises ==
    /\ (pc = "raised") = (raised # "none")
    /\ \A i \in HeaderIdx : report[i] \notin MalformedLines[platform]
    /\ pc = "raised" =>
           /\ idx <= Len(report)
           /\ IsHeader(report[idx])
           /\ report[idx] \in MalformedLines[platform]
           /\ Aligned
           /\ EarlierKept
           /\ \A i \in HeaderIdx :
                  /\ BuiltFromLine(i)
                  /\ RecordOf(i).fixit_lines = Slice(report, i + 1, BlockEnd(i) - 1)
           /\ ~ENABLED (ParseHeader \/ AppendFixitLine \/ DiscardLine \/ EndPass)

MalformedHeaderRaisesWitness ==
    /\ pc = "raised"
    /\ Len(report) = 3
    /\ idx = 2
    /\ ~IsHeader(report[3])
    /\ Len(tidy_notes) = Base + 1
    /\ tidy_notes[Base + 1].fixit_lines = <<>>

\* what is between the last "[" and the last "]" of a line
LastBracketPair(line) ==
    LET e == Max(Positions(line, "]"))
        b == Max({k \in Positions(line, "[") : k < e})
    IN  Slice(line, b + 1, e - 1)

LastBracketPairOf == [line \in HeaderLines |-> LastBracketPair(line)]

\* C5: the check (diagnostic) of a record is what stands between the last
\* "[" and "]" pair of its header line, also when the rationale has
\* brackets of its own.
CheckIdIsLastBracketPair ==
    raised = "none" =>
        /\ Aligned
        /\ \A i \in HeaderIdx :
               RecordOf(i).diagnostic = LastBracketPairOf[report[i]]

\* the level of the log command: "notice" for a severity that begins with
\* "note", the severity otherwise
Level(severity) ==
    IF Len(severity) >= 4 /\ <<severity[1], severity[2], severity[3], severity[4]>> = Note
    THEN Notice
    ELSE severity

\* ::<level> file=<filename>,line=<line>,title=<filename>:<line>:<col> [<check_id>]::<message>
Rendered(n) ==
    LET at == n.filename \o <<":">> \o FormatInt(n.line) \o <<":">> \o FormatInt(n.cols)
    IN  <<":", ":">> \o Level(n.note_type) \o <<" ">>
        \o <<"f", "i", "l", "e", "=">> \o n.filename \o <<",">>
        \o <<"l", "i", "n", "e", "=">> \o FormatInt(n.line) \o <<",">>
        \o <<"t", "i", "t", "l", "e", "=">> \o at
        \o <<" ", "[">> \o n.diagnostic \o <<"]">>
        \o <<":", ":">> \o n.note_info

\* severity "note", filename "a.cpp", line 3, col 1, check "c", message "m"
ExampleNote(n) ==
    /\ n.note_type = Note
    /\ n.filename = <<"a", ".", "c", "p", "p">>
    /\ n.line = 3
    /\ n.cols = 1
    /\ n.diagnostic = <<"c">>
    /\ n.note_info = <<"m">>

\* ::notice file=a.cpp,line=3,title=a.cpp:3:1 [c]::m
ExampleNoteCommand ==
    <<":", ":", "n", "o", "t", "i", "c", "e", " ", "f", "i", "l", "e", "=",
      "a", ".", "c", "p", "p", ",", "l", "i", "n", "e", "=", "3", ",", "t",
      "i", "t", "l", "e", "=", "a", ".", "c", "p", "p", ":", "3", ":", "1",
      " ", "[", "c", "]", ":", ":", "m">>

LogCommandReturn ==
    log_of # 0 =>
        /\ log_of <= Len(tidy_notes)
        /\ log_out = Rendered(tidy_notes[log_of])
        /\ ExampleNote(tidy_notes[log_of]) => log_out = ExampleNoteCommand

\* C6: log_command returns the log command of the record, with level
\* "notice" for a severity beginning with "note" and the severity verbatim
\* otherwise, the example record giving the example command; the call
\* leaves the collection as it was.
LogCommandFormat ==
    /\ []LogCommandReturn
    /\ [][(log_of' # 0 /\ <<log_of, log_out>>' # <<log_of, log_out>>)
            => tidy_notes' = tidy_notes]_vars

LogCommandFormatWitness ==
    /\ log_of # 0
    /\ ExampleNote(tidy_notes[log_of])
    /\ log_out = ExampleNoteCommand
    /\ \E k \in 1..Len(tidy_notes) : ~StartsWith(tidy_notes[k].note_type, Note)

\* C7 as stated: a pass starts from an empty collection, so that between
\* calls the collection holds just the records of the header lines of the
\* last report.
EachPassStartsEmpty ==
    pc = "idle" => Len(tidy_notes) = Cardinality(HeaderIdx)

\* C7 as amended: a pass does not empty the collection, it appends to what
\* the earlier passes left: the collection is the records it held when the
\* call began, unchanged, followed by one record per header line processed;
\* between calls it is not modified.
CollectionAccumulates ==
    /\ [](Aligned /\ EarlierKept)
    /\ [][pc = "idle" => tidy_notes' = tidy_notes]_vars

CollectionAccumulatesWitness ==
    /\ pc = "idle"
    /\ passes = 2
    /\ Base >= 1
    /\ Len(tidy_notes) > Base
    /\ SubSeq(tidy_notes, 1, Base) = notes_at_start

\* C8 as stated: line >= 1 and column >= 1 in every record.
LineColPositive ==
    \A k \in 1..Len(tidy_notes) :
        tidy_notes[k].line >= 1 /\ tidy_notes[k].cols >= 1

\* C8 as amended: line >= 0 and column >= 0 in every record; 0 is
\* accepted for either.
LineColNonNegative ==
    \A k \in 1..Len(tidy_notes) :
        tidy_notes[k].line >= 0 /\ tidy_notes[k].cols >= 0

LineColNonNegativeWitness ==
    /\ pc = "idle"
    /\ \E k \in 1..Len(tidy_notes) :
           tidy_notes[k].line = 0 /\ tidy_notes[k].cols = 0
    /\ \E k \in 1..Len(tidy_notes) :
           tidy_notes[k].line = 12 /\ tidy_notes[k].cols = 5

\* C9 as stated: the check of every record has at least one character.
CheckIdNonEmpty ==
    \A k \in 1..Len(tidy_notes) : Len(tidy_notes[k].diagnostic) >= 1

\* the last item of the line has nothing between its first "[" and its
\* last "]"
EmptyBrackets(line) ==
    LET items == SplitColon(line)
        info  == items[Len(items)]
    IN  /\ Positions(info, "[") # {}
        /\ Positions(info, "]") # {}
        /\ Max(Positions(info, "]")) = Min(Positions(info, "[")) + 1

EmptyBracketLines == {line \in HeaderLines : EmptyBrackets(line)}

\* C9 as amended: the check of a record is empty exactly when the header
\* line has nothing between the first "[" and the last "]" of its last
\* item (a line ending in "[]"); it has at least one character otherwise.
CheckIdEmptyOnlyForEmptyBrackets ==
    raised = "none" =>
        /\ Aligned
        /\ \A i \in HeaderIdx :
               (Len(RecordOf(i).diagnostic) = 0) = (report[i] \in EmptyBracketLines)

CheckIdEmptyOnlyForEmptyBracketsWitness ==
    /\ pc = "idle"
    /\ raised = "none"
    /\ \E i \in HeaderIdx : Aligned /\ RecordOf(i).diagnostic = <<>>
    /\ \E i \in HeaderIdx : Aligned /\ RecordOf(i).diagnostic = <<"c">>

\* the path of the two example lines
WinPath == <<"C", ":", "\\", "s", "r", "c", "\\", "f", "i", "l", "e", ".", "c", "p", "p">>

PosixPath == <<"/", "s", "r", "c", "/", "f", "i", "l", "e", ".", "c", "p", "p">>

\* the fields the items of a header line give: the first two joined with
\* ":" when the platform is win32 and there are more than 5 items, the
\* items as they are otherwise
Stated(line, p) ==
    LET items  == SplitColon(line)
        merged == p = "win32" /\ Len(items) > 5
        at(k)  == IF merged THEN items[k + 1] ELSE items[k]
    IN  [count     |-> IF merged THEN Len(items) - 1 ELSE Len(items),
         filename  |-> Remove(IF merged THEN items[1] \o <<":">> \o items[2] ELSE items[1],
                              Getcwd(p) \o Sep(p)),
         line      |-> Strip(at(2)),
         cols      |-> Strip(at(3)),
         note_type |-> Strip(at(4))]

StatedOf == [p \in Platforms |-> [line \in HeaderLines |-> Stated(line, p)]]

\* C10: the first two items of the split are joined with ":" exactly when
\* the platform is win32 and the split gave more than 5 items; otherwise
\* the items are taken as they are. The win32 example gives filename
\* C:\src\file.cpp, line 12, col 5, severity warning, check check-x; the
\* other example gives the same structure without the merge.
MergeOnlyOnWin32 ==
    raised = "none" =>
        /\ Aligned
        /\ \A i \in HeaderIdx :
               LET n  == RecordOf(i)
                   st == StatedOf[platform][report[i]]
               IN  /\ st.count = 5
                   /\ n.filename = st.filename
                   /\ n.line = DigitsVal(st.line)
                   /\ n.cols = DigitsVal(st.cols)
                   /\ n.note_type = st.note_type
                   /\ (platform = "win32" /\ report[i] = WinLine) =>
                          /\ n.filename = WinPath
                          /\ n.line = 12
                          /\ n.cols = 5
                          /\ n.note_type = <<"w", "a", "r", "n", "i", "n", "g">>
                          /\ n.diagnostic = <<"c", "h", "e", "c", "k", "-", "x">>
                   /\ (platform # "win32" /\ report[i] = PosixLine) =>
                          /\ n.filename = PosixPath
                          /\ n.line = 12
                          /\ n.cols = 5
                          /\ n.note_type = <<"e", "r", "r", "o", "r">>
                          /\ n.diagnostic = <<"c", "h", "e", "c", "k", "-", "y">>

MergeOnlyOnWin32Witness ==
    /\ pc = "idle"
    /\ raised = "none"
    /\ platform = "win32"
    /\ Len(report) = 2
    /\ report[1] = WinLine
    /\ report[2] = PosixLine
    /\ Len(tidy_notes) = Base + 2
    /\ tidy_notes[Base + 1].filename = WinPath
    /\ tidy_notes[Base + 2].filename = PosixPath

====
